---- MODULE Spec2Model ----
(***************************************************************************)
(* Model of reduction::v9 (Tutorials/reduction/include/Reduction/v9.hpp):  *)
(* the host side operator() that copies the input to the device, launches  *)
(* one kernel pass per loop iteration on the default stream and reads the  *)
(* result back, and the device kernel that reduces one chunk of the front  *)
(* buffer to one element of the back buffer.                               *)
(*                                                                         *)
(* T is modelled by the integers, kernel_op by addition and zero_elem by   *)
(* 0.  The two device allocations are named "A" (the buffer front points   *)
(* to after construction) and "B" (the one back points to).                *)
(***************************************************************************)
EXTENDS Integers, Sequences, FiniteSets, TLC

VARIABLES
    warp_size,          \* devProp.warpSize read by the constructor
    junk,               \* what uninitialised / out-of-allocation memory reads as
    mem,                \* contents of the two device allocations
    front, back,        \* the engine's current front / back pointers
    origi_front, origi_back,
    pc,                 \* position of the host thread inside operator()
    input,              \* <<length, valid>>: the host span of the current call
    block_size, items_per_thread,
    curr,               \* std::size_t curr of the pass loop
    result,             \* T result copied back from the device
    failure,            \* why the call was aborted, "none" when it was not
    stream,             \* kernels queued on the default stream, oldest first
    launches,           \* kernels launched by the current call
    passLog,            \* <<front_size, grid size>> of each of these launches
    bufLog,             \* <<front, back>> of each of these launches
    lastBlock,          \* memory accesses of the block executed last
    calls,              \* calls started on this engine
    prev,               \* input, configuration and result of the previous call
    trace,              \* device API calls the host has made in the current call
    blockDim,           \* threads of the block followed warp by warp
    blockRes,           \* T res of each thread of that block
    blockShared,        \* __shared__ T shared[WarpCount]
    wpc,                \* position of each warp of that block in the kernel
    active,             \* ActiveWarps of the iteration each warp is in
    arrived,            \* __syncthreads() calls each warp has made
    accesses,           \* accesses to shared made so far
    out,                \* what thread 0 has stored to back[bid]
    step_size,          \* std::size_t step_size of a launch, as <<high, low>>
    launch_conf,        \* <<BlockSize, ItemsPerThread>> of that launch
    wstage,             \* how far that launch has been followed
    grid,               \* blocks of that launch
    front_size32,       \* uint32_t front_size the kernel receives
    thread,             \* <<bid, tid>> of the thread followed
    gid32               \* const int32_t gid of that thread

hostVars == <<warp_size, junk, mem, front, back, origi_front, origi_back, pc, input,
              block_size, items_per_thread, curr, result, failure, stream, launches,
              passLog, bufLog, lastBlock, calls, prev, trace>>
blockVars == <<blockDim, blockRes, blockShared, wpc, active, arrived, accesses, out>>
widthVars == <<step_size, launch_conf, wstage, grid, front_size32, thread, gid32>>
vars == <<hostVars, blockVars, widthVars>>

engine == <<warp_size, junk, origi_front, origi_back>>
callArgs == <<input, block_size, items_per_thread>>

----------------------------------------------------------------------------
(* Bounds of the model *)

\* largest element of input_sizes given to the constructor
LargestSize == 64
\* calls made on one engine in the specification of call sequences
MaxCalls == 2

(* Program constants *)

BlockSizeMenuWith4 == {4, 32, 64, 128, 256, 512, 1024}
BlockSizeMenu == {32, 64, 128, 256, 512, 1024}
WarpSizeMenu == {32, 64}
ItemsPerThreadMenu == {1, 2, 3, 4, 8, 16}

\* smallest element of block_sizes given to the constructor: the engine is
\* built for every block size of the menu
SmallestBlock == CHOOSE b \in BlockSizeMenu : \A c \in BlockSizeMenu : b <= c

zero_elem == 0
kernel_op(a, b) == a + b

GarbageVals == {0, 7}

----------------------------------------------------------------------------
(* Pass planner *)

new_size_floor(factor, actual) == actual \div factor

new_size(factor, actual) ==
    (actual \div factor) + (IF actual % factor = 0 THEN 0 ELSE 1)

FrontCapacity == LargestSize
BackCapacity == new_size(SmallestBlock, LargestSize)
Capacity(b) == IF b = "A" THEN FrontCapacity ELSE BackCapacity

----------------------------------------------------------------------------
(* The host span: element i of an input <<len, valid>> is i + 1 below      *)
(* valid and the neutral element from there on (a padded input).           *)

InputLen(in) == in[1]
InputAt(in, i) == IF i < in[2] THEN i + 1 ELSE zero_elem

RECURSIVE FoldFrom(_, _)
FoldFrom(in, i) ==
    IF i = 0 THEN InputAt(in, 0)
    ELSE kernel_op(FoldFrom(in, i - 1), InputAt(in, i))
\* the sequential left-to-right fold of a non-empty input
SeqFold(in) == FoldFrom(in, InputLen(in) - 1)

----------------------------------------------------------------------------
(* Device kernel *)

\* a load from a device buffer; outside the allocation it yields junk
Peek(buf, i) == IF i \in DOMAIN mem[buf] THEN mem[buf][i] ELSE junk

loads_unchecked(i, I, IPT, front_size) == TRUE

\* whether read_global_safe loads item I of the thread whose first index
\* is i from the front buffer; otherwise it substitutes zero_elem
loads(i, I, IPT, front_size) ==
    \/ i + IPT < front_size
    \/ i + I < front_size

read_global_safe(buf, i, IPT, front_size) ==
    [I \in 0 .. IPT - 1 |->
        IF loads(i, I, IPT, front_size) THEN Peek(buf, i + I) ELSE zero_elem]

Gid_blockDim(bid, tid, BlockSize, IPT) == bid * BlockSize + tid * IPT

Gid(bid, tid, BlockSize, IPT) == bid * (BlockSize * IPT) + tid * IPT

RECURSIVE FoldItems(_, _)
FoldItems(arr, I) ==
    IF I = 0 THEN arr[0] ELSE kernel_op(FoldItems(arr, I - 1), arr[I])

\* T res of thread tid after the per-thread reduction
ThreadPartial(buf, bid, tid, BlockSize, IPT, front_size) ==
    FoldItems(read_global_safe(buf, Gid(bid, tid, BlockSize, IPT), IPT, front_size),
              IPT - 1)

\* __shfl_down(res, Delta) as seen by thread t
ShflDown(res, t, Delta, WarpSize, BlockSize) ==
    IF (t % WarpSize) + Delta < WarpSize /\ t + Delta < BlockSize
    THEN res[t + Delta]
    ELSE res[t]

\* one step of the warp reduction, taken by the warps below ActiveWarps
ShflStep(res, Delta, ActiveWarps, WarpSize, BlockSize) ==
    [t \in 0 .. BlockSize - 1 |->
        IF t \div WarpSize < ActiveWarps
        THEN kernel_op(res[t], ShflDown(res, t, Delta, WarpSize, BlockSize))
        ELSE res[t]]

RECURSIVE WarpReduce(_, _, _, _, _)
WarpReduce(res, Delta, ActiveWarps, WarpSize, BlockSize) ==
    IF Delta = 0 THEN res
    ELSE WarpReduce(ShflStep(res, Delta, ActiveWarps, WarpSize, BlockSize),
                    Delta \div 2, ActiveWarps, WarpSize, BlockSize)

DivideCeil(I, d) == (I \div d) + (IF I % d = 0 THEN 0 ELSE 1)

WarpCountOf(BlockSize, WarpSize) == BlockSize \div WarpSize

\* the step of the outer static_for: divide_ceil<WarpSize> unless I is 1
NextActiveWarps(I, WarpSize) == IF I # 1 THEN DivideCeil(I, WarpSize) ELSE 0

\* one iteration of the outer static_for; st is [res, shared]
Round(st, ActiveWarps, WarpSize, BlockSize) ==
    LET WarpCount == WarpCountOf(BlockSize, WarpSize)
        red == WarpReduce(st.res, WarpSize \div 2, ActiveWarps, WarpSize, BlockSize)
        shared == [w \in 0 .. WarpCount - 1 |->
                      IF w < ActiveWarps THEN red[w * WarpSize] ELSE st.shared[w]]
        \* read_shared_safe(tid), after __syncthreads()
    IN  [res |-> [t \in 0 .. BlockSize - 1 |->
                     IF t < WarpCount THEN shared[t] ELSE zero_elem],
         shared |-> shared]

RECURSIVE Rounds(_, _, _, _)
Rounds(st, I, WarpSize, BlockSize) ==
    IF I = 0 THEN st
    ELSE Rounds(Round(st, I, WarpSize, BlockSize),
                NextActiveWarps(I, WarpSize), WarpSize, BlockSize)

\* the value thread 0 of block bid stores to back[bid]
kernel(buf, bid, BlockSize, WarpSize, IPT, front_size) ==
    LET WarpCount == WarpCountOf(BlockSize, WarpSize)
        res0 == [t \in 0 .. BlockSize - 1 |->
                    ThreadPartial(buf, bid, t, BlockSize, IPT, front_size)]
        fin == Rounds([res |-> res0, shared |-> [w \in 0 .. WarpCount - 1 |-> junk]],
                      WarpCount, WarpSize, BlockSize)
    IN  fin.res[0]

\* the front indices block bid loads
BlockReads(bid, BlockSize, IPT, front_size) ==
    UNION { { Gid(bid, t, BlockSize, IPT) + I :
                I \in { J \in 0 .. IPT - 1 :
                          loads(Gid(bid, t, BlockSize, IPT), J, IPT, front_size) } } :
            t \in 0 .. BlockSize - 1 }

----------------------------------------------------------------------------
(* Collaborators that are not part of v9.hpp *)

\* tmp::static_switch over a menu: the callback is instantiated for the
\* values of the menu only, so a value selects a kernel only when it is one
static_switch(menu, value) == value \in menu

\* what a value outside the menu leads to: an unsupported-configuration
\* failure reported to the caller
unsupported_value == [pc |-> "failed", failure |-> "unsupported configuration"]

Supported(bs, ws, ipt) ==
    /\ static_switch(BlockSizeMenu, bs)
    /\ static_switch(WarpSizeMenu, ws)
    /\ static_switch(ItemsPerThreadMenu, ipt)

\* hip::check / HIP_CHECK: a failed device call aborts the call in progress
\* and is propagated to the caller
HipCheckPc(err, next) == IF err THEN "failed" ELSE next
HipCheckFailure(err, what) == IF err THEN what ELSE "none"

----------------------------------------------------------------------------
(* State after construction *)

NoBlock == [bid |-> 0, front |-> "A", back |-> "B", size |-> 0, blocks |-> 0,
            reads |-> {}, executed |-> FALSE]
NoOut == [written |-> FALSE, value |-> zero_elem]
NoPrev == [input |-> <<0, 0>>, block_size |-> 0, items_per_thread |-> 0,
           result |-> 0, valid |-> FALSE]

HostInit ==
    /\ warp_size \in WarpSizeMenu
    /\ junk \in GarbageVals
    /\ mem = [b \in {"A", "B"} |-> [i \in 0 .. Capacity(b) - 1 |-> junk]]
    /\ front = "A" /\ back = "B"
    /\ origi_front = "A" /\ origi_back = "B"
    /\ pc = "idle"
    /\ input = <<0, 0>>
    /\ block_size = 0 /\ items_per_thread = 0
    /\ curr = 0
    /\ result = junk
    /\ failure = "none"
    /\ stream = <<>>
    /\ launches = 0
    /\ passLog = <<>>
    /\ bufLog = <<>>
    /\ lastBlock = NoBlock
    /\ calls = 0
    /\ prev = NoPrev
    /\ trace = <<>>

\* no block is followed warp by warp
BlockIdle ==
    /\ blockDim = 0
    /\ blockRes = <<>> /\ blockShared = <<>>
    /\ wpc = <<>> /\ active = <<>> /\ arrived = <<>>
    /\ accesses = {}
    /\ out = NoOut

\* no launch is followed at full integer width
WidthIdle ==
    /\ step_size = <<0, 0>>
    /\ launch_conf = <<0, 0>>
    /\ wstage = "idle"
    /\ grid = 0
    /\ front_size32 = <<0, 0>>
    /\ thread = <<0, 0>>
    /\ gid32 = <<0, 0>>

Init == HostInit /\ BlockIdle /\ WidthIdle

----------------------------------------------------------------------------
(* Host: operator() *)

factor == block_size * items_per_thread

\* entry of operator(): the arguments are bound, T result is uninitialised
Enter(in, bs, ipt) ==
    /\ input' = in
    /\ block_size' = bs
    /\ items_per_thread' = ipt
    /\ pc' = "copy_in"
    /\ curr' = 0
    /\ result' = junk
    /\ failure' = "none"
    /\ launches' = 0
    /\ passLog' = <<>>
    /\ bufLog' = <<>>
    /\ lastBlock' = NoBlock
    /\ calls' = calls + 1
    /\ trace' = <<>>
    /\ UNCHANGED <<engine, mem, front, back, stream>>
    /\ UNCHANGED <<blockVars, widthVars>>

\* the first call on a freshly constructed engine
Call(in, bs, ipt) ==
    /\ pc = "idle"
    /\ prev' = prev
    /\ Enter(in, bs, ipt)

\* a further call after the previous one has returned
CallAgain(in, bs, ipt) ==
    /\ pc = "returned"
    /\ calls < MaxCalls
    /\ prev' = [input |-> input, block_size |-> block_size,
                items_per_thread |-> items_per_thread, result |-> result,
                valid |-> TRUE]
    /\ Enter(in, bs, ipt)

\* line 92: hipMemcpy(front, input.data(), ...).  Elements past the end of
\* the allocation front points to do not land in it.
CopyIn(err) ==
    /\ pc = "copy_in"
    /\ pc' = HipCheckPc(err, "event_create")
    /\ failure' = HipCheckFailure(err, "hipMemcpy")
    /\ mem' = IF err THEN mem
              ELSE [mem EXCEPT ![front] =
                       [i \in DOMAIN mem[front] |->
                           IF i < InputLen(input) THEN InputAt(input, i)
                           ELSE mem[front][i]]]
    /\ trace' = IF err THEN trace ELSE Append(trace, "copy_in")
    /\ UNCHANGED <<engine, front, back, callArgs, curr, result, stream,
                   launches, passLog, bufLog, lastBlock, calls, prev>>
    /\ UNCHANGED <<blockVars, widthVars>>

\* lines 125-126: hipEventCreate(&start), hipEventCreate(&end)
EventCreate(err) ==
    /\ pc = "event_create"
    /\ pc' = HipCheckPc(err, "record_start")
    /\ failure' = HipCheckFailure(err, "hipEventCreate")
    /\ trace' = trace
    /\ UNCHANGED <<engine, mem, front, back, callArgs, curr, result, stream,
                   launches, passLog, bufLog, lastBlock, calls, prev>>
    /\ UNCHANGED <<blockVars, widthVars>>

\* lines 127-128: hipEventRecord(start, 0); curr = input.size()
RecordStart(err) ==
    /\ pc = "record_start"
    /\ pc' = HipCheckPc(err, "loop")
    /\ failure' = HipCheckFailure(err, "hipEventRecord")
    /\ curr' = IF err THEN curr ELSE InputLen(input)
    /\ trace' = IF err THEN trace ELSE Append(trace, "record_start")
    /\ UNCHANGED <<engine, mem, front, back, callArgs, result, stream,
                   launches, passLog, bufLog, lastBlock, calls, prev>>
    /\ UNCHANGED <<blockVars, widthVars>>

\* lines 129-131, 94-121: while(curr > 1) kernel_dispatcher(curr).  The
\* kernel is queued on the default stream with the pointers and the size
\* as they are now; the host does not wait for it.
Dispatch ==
    /\ pc = "loop"
    /\ curr > 1
    /\ IF Supported(block_size, warp_size, items_per_thread)
       THEN /\ stream' = Append(stream,
                   [front |-> front, back |-> back,
                    front_size |-> curr,
                    blocks |-> new_size(factor, curr),
                    BlockSize |-> block_size, WarpSize |-> warp_size,
                    ItemsPerThread |-> items_per_thread,
                    pending |-> 0 .. new_size(factor, curr) - 1])
            /\ launches' = launches + 1
            /\ passLog' = Append(passLog, <<curr, new_size(factor, curr)>>)
            /\ bufLog' = Append(bufLog, <<front, back>>)
            /\ pc' = "check"
            /\ failure' = "none"
            /\ trace' = Append(trace, "launch")
       ELSE /\ pc' = unsupported_value.pc
            /\ failure' = unsupported_value.failure
            /\ UNCHANGED <<stream, launches, passLog, bufLog, trace>>
    /\ UNCHANGED <<engine, mem, front, back, callArgs, curr, result,
                   lastBlock, calls, prev>>
    /\ UNCHANGED <<blockVars, widthVars>>

PassEndAlwaysSwap(err) ==
    /\ pc = "check"
    /\ pc' = HipCheckPc(err, "loop")
    /\ failure' = HipCheckFailure(err, "hipKernelLaunchGGL")
    /\ curr' = IF err THEN curr ELSE new_size(factor, curr)
    /\ front' = IF ~err THEN back ELSE front
    /\ back' = IF ~err THEN front ELSE back
    /\ trace' = trace
    /\ UNCHANGED <<engine, mem, callArgs, result, stream, launches, passLog,
                   bufLog, lastBlock, calls, prev>>
    /\ UNCHANGED <<blockVars, widthVars>>

\* lines 132-136: hip::check(hipGetLastError()); curr = new_size(factor,
\* curr); if(curr > 1) std::swap(front, back)
PassEnd(err) ==
    /\ pc = "check"
    /\ pc' = HipCheckPc(err, "loop")
    /\ failure' = HipCheckFailure(err, "hipKernelLaunchGGL")
    /\ curr' = IF err THEN curr ELSE new_size(factor, curr)
    /\ front' = IF ~err /\ new_size(factor, curr) > 1 THEN back ELSE front
    /\ back' = IF ~err /\ new_size(factor, curr) > 1 THEN front ELSE back
    /\ trace' = trace
    /\ UNCHANGED <<engine, mem, callArgs, result, stream, launches, passLog,
                   bufLog, lastBlock, calls, prev>>
    /\ UNCHANGED <<blockVars, widthVars>>

\* line 138: the loop has ended; hipEventRecord(end, 0)
RecordEnd(err) ==
    /\ pc = "loop"
    /\ ~(curr > 1)
    /\ pc' = HipCheckPc(err, "sync")
    /\ failure' = HipCheckFailure(err, "hipEventRecord")
    /\ trace' = IF err THEN trace ELSE Append(trace, "record_end")
    /\ UNCHANGED <<engine, mem, front, back, callArgs, curr, result, stream,
                   launches, passLog, bufLog, lastBlock, calls, prev>>
    /\ UNCHANGED <<blockVars, widthVars>>

\* line 139: hipEventSynchronize(end) returns once the stream has drained
Synchronize(err) ==
    /\ pc = "sync"
    /\ stream = <<>>
    /\ pc' = HipCheckPc(err, "copy_out")
    /\ failure' = HipCheckFailure(err, "hipEventSynchronize")
    /\ trace' = IF err THEN trace ELSE Append(trace, "sync")
    /\ UNCHANGED <<engine, mem, front, back, callArgs, curr, result, stream,
                   launches, passLog, bufLog, lastBlock, calls, prev>>
    /\ UNCHANGED <<blockVars, widthVars>>

CopyOutUnsynchronised(err) ==
    /\ pc \in {"sync", "copy_out"}
    /\ pc' = HipCheckPc(err, "elapsed")
    /\ failure' = HipCheckFailure(err, "hipMemcpy")
    /\ result' = IF err THEN result ELSE Peek(back, 0)
    /\ trace' = IF err THEN trace ELSE Append(trace, "copy_out")
    /\ UNCHANGED <<engine, mem, front, back, callArgs, curr, stream,
                   launches, passLog, bufLog, lastBlock, calls, prev>>
    /\ UNCHANGED <<blockVars, widthVars>>

\* lines 141-142: hipMemcpy(&result, back, sizeof(T), ...)
CopyOut(err) ==
    /\ pc = "copy_out"
    /\ pc' = HipCheckPc(err, "elapsed")
    /\ failure' = HipCheckFailure(err, "hipMemcpy")
    /\ result' = IF err THEN result ELSE Peek(back, 0)
    /\ trace' = IF err THEN trace ELSE Append(trace, "copy_out")
    /\ UNCHANGED <<engine, mem, front, back, callArgs, curr, stream,
                   launches, passLog, bufLog, lastBlock, calls, prev>>
    /\ UNCHANGED <<blockVars, widthVars>>

\* lines 144-148: hipEventElapsedTime, hipEventDestroy(end),
\* hipEventDestroy(start)
ElapsedTime(err) ==
    /\ pc = "elapsed"
    /\ pc' = HipCheckPc(err, "reset")
    /\ failure' = HipCheckFailure(err, "hipEventElapsedTime")
    /\ trace' = IF err THEN trace ELSE Append(trace, "elapsed")
    /\ UNCHANGED <<engine, mem, front, back, callArgs, curr, result, stream,
                   launches, passLog, bufLog, lastBlock, calls, prev>>
    /\ UNCHANGED <<blockVars, widthVars>>

\* lines 150-153: front = origi_front; back = origi_back; return
Return ==
    /\ pc = "reset"
    /\ front' = origi_front
    /\ back' = origi_back
    /\ pc' = "returned"
    /\ trace' = trace
    /\ UNCHANGED <<engine, mem, callArgs, curr, result, failure, stream,
                   launches, passLog, bufLog, lastBlock, calls, prev>>
    /\ UNCHANGED <<blockVars, widthVars>>

----------------------------------------------------------------------------
(* Device: the blocks of the oldest kernel on the stream run in any order; *)
(* the next kernel starts when the last block of this one has finished.    *)

ExecBlock(bid) ==
    /\ stream # <<>>
    /\ LET k == Head(stream)
       IN  /\ bid \in k.pending
           /\ mem' = IF bid \in DOMAIN mem[k.back]
                     THEN [mem EXCEPT ![k.back][bid] =
                              kernel(k.front, bid, k.BlockSize, k.WarpSize,
                                     k.ItemsPerThread, k.front_size)]
                     ELSE mem
           /\ lastBlock' = [bid |-> bid, front |-> k.front, back |-> k.back,
                            size |-> k.front_size, blocks |-> k.blocks,
                            reads |-> BlockReads(bid, k.BlockSize,
                                                 k.ItemsPerThread, k.front_size),
                            executed |-> TRUE]
           /\ stream' = IF k.pending = {bid} THEN Tail(stream)
                        ELSE <<[k EXCEPT !.pending = @ \ {bid}]>> \o Tail(stream)
    /\ trace' = trace
    /\ UNCHANGED <<engine, front, back, pc, callArgs, curr, result, failure,
                   launches, passLog, bufLog, calls, prev>>
    /\ UNCHANGED <<blockVars, widthVars>>

----------------------------------------------------------------------------
(* Inputs of the calls *)

RoundUp(n, f) == new_size(f, n) * f

\* lengths of the unpadded inputs 1, 2, ..., n
Lengths == {1, 2, 8, 10, SmallestBlock + 1, LargestSize + 1}
\* these, and their paddings with neutral elements that still fit
Inputs ==
    { <<n, n>> : n \in Lengths } \cup
    { <<RoundUp(n, f), n>> : n \in {1, SmallestBlock + 1}, f \in {32, 64} }
BlockSizes == {1, 4, 32, 64, 128}
ItemCounts == {1, 2, 3, 5}

SeqInputs == { in \in Inputs : in[2] \in {1, SmallestBlock + 1} }
SeqBlockSizes == {32, 64}
SeqItemCounts == {1, 2}

----------------------------------------------------------------------------
(* One call on a fresh engine, any configuration, device calls may fail *)

Next ==
    \/ \E in \in Inputs, bs \in BlockSizes, ipt \in ItemCounts : Call(in, bs, ipt)
    \/ \E err \in BOOLEAN : CopyIn(err)
    \/ \E err \in BOOLEAN : EventCreate(err)
    \/ \E err \in BOOLEAN : RecordStart(err)
    \/ Dispatch
    \/ \E err \in BOOLEAN : PassEnd(err)
    \/ \E err \in BOOLEAN : RecordEnd(err)
    \/ \E err \in BOOLEAN : Synchronize(err)
    \/ \E err \in BOOLEAN : CopyOut(err)
    \/ \E err \in BOOLEAN : ElapsedTime(err)
    \/ Return
    \/ \E bid \in 0 .. LargestSize : ExecBlock(bid)

Spec == Init /\ [][Next]_vars

(* Sequences of calls on one engine, supported configurations, no device   *)
(* call fails                                                              *)

NextSeq ==
    \/ \E in \in SeqInputs, bs \in SeqBlockSizes, ipt \in SeqItemCounts :
          Call(in, bs, ipt)
    \/ \E in \in SeqInputs, bs \in SeqBlockSizes, ipt \in SeqItemCounts :
          CallAgain(in, bs, ipt)
    \/ CopyIn(FALSE)
    \/ EventCreate(FALSE)
    \/ RecordStart(FALSE)
    \/ Dispatch
    \/ PassEnd(FALSE)
    \/ RecordEnd(FALSE)
    \/ Synchronize(FALSE)
    \/ CopyOut(FALSE)
    \/ ElapsedTime(FALSE)
    \/ Return
    \/ \E bid \in 0 .. LargestSize : ExecBlock(bid)

SpecSeq == Init /\ [][NextSeq]_vars

----------------------------------------------------------------------------
(* One thread block of the kernel, warp by warp: lines 209-234.  The lanes *)
(* of a warp run in lockstep; the warps of the block run in any order and  *)
(* meet only at __syncthreads().                                           *)

MaxBlockDim == 128

BlockDims == { b \in BlockSizeMenu : b <= MaxBlockDim }

Warps == 0 .. DivideCeil(blockDim, warp_size) - 1
WarpCount == WarpCountOf(blockDim, warp_size)
LanesOf(w) == { t \in 0 .. blockDim - 1 : t \div warp_size = w }

\* T res of thread t when the cross-warp rounds begin (line 207)
Partial(t) == t + 1

\* lines 219-220 for the lanes of warp w
WarpShfl(r, w, Delta) ==
    [t \in DOMAIN r |->
        IF t \in LanesOf(w)
        THEN kernel_op(r[t], ShflDown(r, t, Delta, warp_size, blockDim))
        ELSE r[t]]

RECURSIVE WarpShuffles(_, _, _)
WarpShuffles(r, w, Delta) ==
    IF Delta = 0 THEN r
    ELSE WarpShuffles(WarpShfl(r, w, Delta), w, Delta \div 2)

\* the position of a warp that enters the outer static_for with value I
LoopEntry(I) == IF I # 0 THEN "reduce" ELSE "store"

InitBlock ==
    /\ HostInit
    /\ blockDim \in BlockDims
    /\ blockRes = [t \in 0 .. blockDim - 1 |-> Partial(t)]
    /\ blockShared = [i \in 0 .. WarpCount - 1 |-> junk]
    /\ wpc = [w \in Warps |-> LoopEntry(WarpCount)]
    /\ active = [w \in Warps |-> WarpCount]
    /\ arrived = [w \in Warps |-> 0]
    /\ accesses = {}
    /\ out = NoOut
    /\ WidthIdle

\* lines 216-225: if(wid < ActiveWarps) { shuffles; if(lid == 0)
\* shared[wid] = res; }
ReducePublish(w) ==
    /\ w \in Warps
    /\ wpc[w] = "reduce"
    /\ LET taken == w < active[w]
           red == IF taken THEN WarpShuffles(blockRes, w, warp_size \div 2)
                  ELSE blockRes
       IN  /\ blockRes' = red
           /\ blockShared' = IF taken
                             THEN [blockShared EXCEPT ![w] = red[w * warp_size]]
                             ELSE blockShared
           /\ accesses' = IF taken
                          THEN accesses \cup
                                   {[slot |-> w, warp |-> w,
                                     epoch |-> arrived[w], kind |-> "write"]}
                          ELSE accesses
    /\ wpc' = [wpc EXCEPT ![w] = "sync"]
    /\ UNCHANGED <<hostVars, widthVars, blockDim, active, arrived, out>>

\* line 226: the warp arrives at __syncthreads()
SyncArrive(w) ==
    /\ w \in Warps
    /\ wpc[w] = "sync"
    /\ arrived' = [arrived EXCEPT ![w] = @ + 1]
    /\ wpc' = [wpc EXCEPT ![w] = "waiting"]
    /\ UNCHANGED <<hostVars, widthVars, blockDim, blockRes, blockShared, active,
                   accesses, out>>

SyncLeaveUnsynchronised(w) ==
    /\ w \in Warps
    /\ wpc[w] = "waiting"
    /\ wpc' = [wpc EXCEPT ![w] = "read"]
    /\ UNCHANGED <<hostVars, widthVars, blockDim, blockRes, blockShared, active,
                   arrived, accesses, out>>

\* line 226: the warp leaves __syncthreads() once every warp of the block
\* has arrived at it
SyncLeave(w) ==
    /\ w \in Warps
    /\ wpc[w] = "waiting"
    /\ \A v \in Warps : arrived[v] >= arrived[w]
    /\ wpc' = [wpc EXCEPT ![w] = "read"]
    /\ UNCHANGED <<hostVars, widthVars, blockDim, blockRes, blockShared, active,
                   arrived, accesses, out>>

\* lines 229, 190-191: res = read_shared_safe(tid), then the step of the
\* outer static_for
ReadShared(w) ==
    /\ w \in Warps
    /\ wpc[w] = "read"
    /\ blockRes' = [t \in DOMAIN blockRes |->
                       IF t \in LanesOf(w)
                       THEN IF t < WarpCount THEN blockShared[t] ELSE zero_elem
                       ELSE blockRes[t]]
    /\ accesses' = accesses \cup
                       { [slot |-> t, warp |-> w,
                          epoch |-> arrived[w], kind |-> "read"] :
                         t \in { u \in LanesOf(w) : u < WarpCount } }
    /\ active' = [active EXCEPT ![w] = NextActiveWarps(@, warp_size)]
    /\ wpc' = [wpc EXCEPT ![w] = LoopEntry(NextActiveWarps(active[w], warp_size))]
    /\ UNCHANGED <<hostVars, widthVars, blockDim, blockShared, arrived, out>>

\* lines 233-234: if(tid == 0) back[bid] = res
Store(w) ==
    /\ w \in Warps
    /\ wpc[w] = "store"
    /\ out' = IF 0 \in LanesOf(w)
              THEN [written |-> TRUE, value |-> blockRes[0]]
              ELSE out
    /\ wpc' = [wpc EXCEPT ![w] = "done"]
    /\ UNCHANGED <<hostVars, widthVars, blockDim, blockRes, blockShared, active,
                   arrived, accesses>>

\* the warps of the largest block followed, at the smallest warp width
WarpIds == 0 .. DivideCeil(MaxBlockDim, CHOOSE m \in WarpSizeMenu :
                                           \A n \in WarpSizeMenu : m <= n) - 1

NextBlock ==
    \/ \E w \in WarpIds : ReducePublish(w)
    \/ \E w \in WarpIds : SyncArrive(w)
    \/ \E w \in WarpIds : SyncLeave(w)
    \/ \E w \in WarpIds : ReadShared(w)
    \/ \E w \in WarpIds : Store(w)

SpecBlock == InitBlock /\ [][NextBlock]_vars

----------------------------------------------------------------------------
(* The integer widths of one launch: std::size_t on the host, uint32_t and *)
(* int32_t in the kernel.  A number is kept as <<high, low>> with value    *)
(* high * 2^16 + low, so that 64-bit sizes and 32-bit wrap-around are      *)
(* exact.                                                                  *)

Limb == 256 * 256

Wide(hi, lo) == <<hi + lo \div Limb, lo % Limb>>
WideAdd(x, y) == Wide(x[1] + y[1], x[2] + y[2])
\* a * b for 0 <= a < 2^28 and 0 <= b <= 2^14
WideMul(a, b) == Wide((a \div Limb) * b, (a % Limb) * b)

\* conversion to uint32_t: modulo 2^32
ToUint32(x) == <<x[1] % Limb, x[2]>>
\* conversion of a uint32_t to int32_t: two's complement
ToInt32(x) ==
    LET high == x[1] % Limb
    IN  <<IF high >= Limb \div 2 THEN high - Limb ELSE high, x[2]>>

\* new_size on std::size_t, lines 166-169; the quotient is below 2^28
new_size64(f, actual) ==
    LET low == (actual[1] % f) * Limb + actual[2]
    IN  (actual[1] \div f) * Limb + low \div f + (IF low % f = 0 THEN 0 ELSE 1)

\* input sizes: small ones and those around 2^16, 2^31 and 2^32
WideSizes ==
    { <<0, 2>>, <<0, SmallestBlock + 1>>, <<1, 0>>,
      <<Limb \div 2 - 1, Limb - 1>>, <<Limb \div 2, 0>>, <<Limb \div 2, 64>>,
      <<Limb - 1, Limb - 1>>, <<Limb, 0>>, <<Limb, 1>> }
WideConfs == { <<32, 1>>, <<64, 3>>, <<1024, 16>> }

InitWidth ==
    /\ HostInit
    /\ BlockIdle
    /\ step_size \in WideSizes
    /\ launch_conf \in WideConfs
    /\ wstage = "host"
    /\ grid = 0
    /\ front_size32 = <<0, 0>>
    /\ thread = <<0, 0>>
    /\ gid32 = <<0, 0>>

\* lines 108-117, 173: the launch passes step_size as uint32_t front_size
LaunchWide ==
    /\ wstage = "host"
    /\ front_size32' = ToUint32(step_size)
    /\ grid' = new_size64(launch_conf[1] * launch_conf[2], step_size)
    /\ wstage' = "launched"
    /\ UNCHANGED <<hostVars, blockVars, step_size, launch_conf, thread, gid32>>

\* the mathematical value of bid * (blockDim.x * ItemsPerThread) + tid *
\* ItemsPerThread
GidValue(bid, tid, BlockSize, IPT) ==
    WideAdd(WideMul(bid, BlockSize * IPT), Wide(0, tid * IPT))

\* lines 193-195: gid is computed in unsigned 32-bit arithmetic (blockDim.x
\* and ItemsPerThread are uint32_t) and stored in a const int32_t
IndexWide(last_bid, last_tid) ==
    /\ wstage = "launched"
    /\ LET bid == IF last_bid THEN grid - 1 ELSE 0
           tid == IF last_tid THEN launch_conf[1] - 1 ELSE 0
       IN  /\ thread' = <<bid, tid>>
           /\ gid32' = ToInt32(ToUint32(
                          GidValue(bid, tid, launch_conf[1], launch_conf[2])))
    /\ wstage' = "indexed"
    /\ UNCHANGED <<hostVars, blockVars, step_size, launch_conf, grid,
                   front_size32>>

NextWidth ==
    \/ LaunchWide
    \/ \E b \in BOOLEAN, t \in BOOLEAN : IndexWide(b, t)

SpecWidth == InitWidth /\ [][NextWidth]_vars

----------------------------------------------------------------------------
(* Properties *)

InRange == InputLen(input) <= LargestSize
SupportedCall == Supported(block_size, warp_size, items_per_thread)
Started == pc # "idle"

\* C1: a call with an input of length 1 .. LargestSize and a configuration
\* of the menus returns the sequential left-to-right fold of its input.
C1_ResultIsFold ==
    (pc = "returned" /\ InRange /\ SupportedCall) => result = SeqFold(input)

\* C2: a call with a single-element input launches no kernel and returns
\* that element, whatever the back buffer held.
C2_SingleElement ==
    (pc = "returned" /\ InputLen(input) = 1)
        => (launches = 0 /\ result = InputAt(input, 0))

\* C3: a call that follows a completed call of at least one pass on the
\* same engine returns the reduction of its own input (block sizes of at
\* least a warp).
C3_NextCallCorrect ==
    (pc = "returned" /\ prev.valid /\ prev.input[1] >= 2
                     /\ block_size >= warp_size)
        => result = SeqFold(input)

\* C4: when a call has completed, by returning or by being aborted by a
\* device error, front and back designate their original buffers.
C4_PointersRestored ==
    (pc \in {"returned", "failed"})
        => (front = origi_front /\ back = origi_back)

\* C5: a call whose block size, warp width or items-per-thread is outside
\* its menu launches no kernel and never returns a value.
C5_UnsupportedRejected ==
    (Started /\ ~SupportedCall) => (launches = 0 /\ pc # "returned")

\* C6: a call whose reduction factor is 1 or smaller is rejected: it never
\* gets past the pass loop.
C6_FactorOneRejected ==
    (Started /\ factor <= 1)
        => pc \notin {"check", "sync", "copy_out", "elapsed", "reset", "returned"}

\* C7: a call whose input is longer than the largest configured size is
\* rejected: it is not copied to the front buffer and reduced.
C7_OversizeRejected ==
    (Started /\ ~InRange) => (pc \in {"copy_in", "failed"} /\ launches = 0)

Scenario8 ==
    /\ Started
    /\ input = <<8, 8>>
    /\ block_size = 4
    /\ items_per_thread = 1

\* C8, as stated: the call with input 1..8, block size 4 and one item per
\* thread, when no device call fails, returns 36 after the passes 8 -> 2
\* and 2 -> 1.
C8_TwoPasses36 ==
    (Scenario8 /\ pc \in {"returned", "failed"}
               /\ failure \in {"none", unsupported_value.failure})
        => (pc = "returned" /\ result = 36 /\ passLog = << <<8, 2>>, <<2, 1>> >>)

\* C8, amended: that call launches no kernel pass, because block size 4 is
\* not in the menu; no block runs and no 36 is computed.
C8_NoPassForBlockSize4 ==
    Scenario8
        => /\ launches = 0
           /\ passLog = <<>>
           /\ ~lastBlock.executed
           /\ result # 36

C8_Witness ==
    /\ Scenario8
    /\ curr = 8
    /\ launches = 0
    /\ pc = unsupported_value.pc
    /\ failure = unsupported_value.failure

\* C9: a call on an input padded with neutral elements up to the next
\* multiple of the factor returns what the call on the unpadded input
\* returned (same configuration, consecutive calls on one engine).
C9_PaddedSameResult ==
    ( /\ pc = "returned"
      /\ prev.valid
      /\ prev.block_size = block_size
      /\ prev.items_per_thread = items_per_thread
      /\ prev.input[1] = prev.input[2]
      /\ prev.input[1] % factor # 0
      /\ input = <<RoundUp(prev.input[1], factor), prev.input[2]>> )
        => result = prev.result

\* C10: every block of every pass of a call with an input of at most
\* LargestSize elements and a block size of at least SmallestBlock loads
\* only front indices below the current size and stores to a back index
\* below the grid size, both inside the allocation that plays that role.
C10_AccessesInBounds ==
    (lastBlock.executed /\ InRange /\ block_size >= SmallestBlock)
        => /\ \A i \in lastBlock.reads :
                i >= 0 /\ i < lastBlock.size /\ i < Capacity(lastBlock.front)
           /\ lastBlock.bid < lastBlock.blocks
           /\ lastBlock.bid < Capacity(lastBlock.back)
           /\ lastBlock.front # lastBlock.back

C10_Witness ==
    /\ lastBlock.executed
    /\ InRange
    /\ block_size >= SmallestBlock
    /\ lastBlock.front = "B"
    /\ lastBlock.back = "A"
    /\ lastBlock.reads = {0, 1}

\* the device API calls of a call with k launches, in program order
RECURSIVE Launches(_)
Launches(k) == IF k = 0 THEN <<>> ELSE <<"launch">> \o Launches(k - 1)
HostOrder(k) ==
    <<"copy_in", "record_start">> \o Launches(k)
        \o <<"record_end", "sync", "copy_out", "elapsed">>

\* C11: the host makes its device calls in the order copy-in, record of the
\* start event, the launches, record of the end event, synchronisation,
\* copy-out, elapsed time: at every moment the calls made so far are a
\* prefix of that order, a call that has returned has made them all, and
\* once the synchronisation has returned every launched kernel has finished.
C11_HostOrder ==
    /\ Len(trace) <= Len(HostOrder(launches))
    /\ trace = SubSeq(HostOrder(launches), 1, Len(trace))
    /\ pc = "returned" => trace = HostOrder(launches)
    /\ pc \in {"copy_out", "elapsed", "reset", "returned"} => stream = <<>>

C11_Witness ==
    /\ pc = "returned"
    /\ launches = 2
    /\ trace = <<"copy_in", "record_start", "launch", "launch",
                 "record_end", "sync", "copy_out", "elapsed">>

CeilDiv(a, b) == (a + b - 1) \div b

AfterLoop == pc \in {"sync", "copy_out", "elapsed", "reset", "returned"}

\* the launches made so far follow curr' = ceil(curr / factor) from the
\* input length on, each over curr elements with ceil(curr / factor) blocks,
\* each strictly smaller than the one before, none but the last with a
\* single output
PlanFollowed ==
    \A j \in 1 .. Len(passLog) :
        LET c == passLog[j][1]
            o == passLog[j][2]
        IN  /\ c = IF j = 1 THEN InputLen(input) ELSE passLog[j - 1][2]
            /\ o = CeilDiv(c, factor)
            /\ o < c
            /\ j < Len(passLog) => o > 1

\* the kernels of the stream are those of the last launches, in order, and
\* only the oldest of them has started
OneAfterAnother ==
    /\ Len(stream) <= Len(passLog)
    /\ \A i \in 1 .. Len(stream) :
          LET k == stream[i]
              j == Len(passLog) - Len(stream) + i
          IN  /\ k.front_size = passLog[j][1]
              /\ k.blocks = passLog[j][2]
              /\ k.pending \subseteq 0 .. k.blocks - 1
              /\ k.pending # {}
              /\ i > 1 => k.pending = 0 .. k.blocks - 1

Scenario10 ==
    /\ Started
    /\ input = <<10, 10>>
    /\ block_size = 4
    /\ items_per_thread = 2

\* C12, as stated, in its example: the call with 10 elements and factor 8
\* (block size 4, two items per thread), when no device call fails, runs
\* exactly the passes 10 -> 2 and 2 -> 1.
C12_Factor8Passes ==
    (Scenario10 /\ pc \in {"returned", "failed"}
                /\ failure \in {"none", unsupported_value.failure})
        => (pc = "returned" /\ passLog = << <<10, 2>>, <<2, 1>> >>)

\* C12, amended: in a call with n >= 2 and a configuration of the menus the
\* launches follow curr' = ceil(curr / factor) with strictly decreasing
\* sizes, pass j has ceil(curr_j / factor) blocks over curr_j elements, the
\* kernels run one after another, and the loop is left exactly when a pass
\* with a single output has been launched.
C12_PassPlan ==
    (Started /\ SupportedCall /\ InputLen(input) >= 2)
        => /\ PlanFollowed
           /\ OneAfterAnother
           /\ launches = Len(passLog)
           /\ AfterLoop => (passLog # <<>> /\ passLog[Len(passLog)][2] = 1)
           /\ (pc = "loop" /\ passLog # <<>>) => curr = passLog[Len(passLog)][2]

C12_Witness ==
    /\ SupportedCall
    /\ pc = "returned"
    /\ passLog = << <<SmallestBlock + 1, 2>>, <<2, 1>> >>

LastWritten == bufLog[Len(bufLog)][2]

\* C13: the buffers are swapped after a pass exactly when the size after
\* that pass is above 1, so each pass reads the buffer the pass before it
\* wrote, and when the loop is left back is the buffer the last launched
\* pass wrote: the copy of back[0] takes that pass's output, for one pass
\* and for two.
C13_BuffersAlternate ==
    (Started /\ SupportedCall /\ bufLog # <<>>)
        => /\ Len(bufLog) = Len(passLog)
           /\ bufLog[1] = <<origi_front, origi_back>>
           /\ \A j \in 1 .. Len(bufLog) : bufLog[j][1] # bufLog[j][2]
           /\ \A j \in 2 .. Len(bufLog) :
                 /\ bufLog[j][1] = bufLog[j - 1][2]
                 /\ bufLog[j][2] = bufLog[j - 1][1]
           /\ pc = "check" => <<front, back>> = bufLog[Len(bufLog)]
           /\ pc = "loop" =>
                 <<front, back>> =
                     IF curr > 1
                     THEN <<LastWritten, bufLog[Len(bufLog)][1]>>
                     ELSE bufLog[Len(bufLog)]
           /\ pc \in {"sync", "copy_out", "elapsed", "reset"} =>
                 back = LastWritten
           /\ pc \in {"elapsed", "reset", "returned"} =>
                 /\ lastBlock.executed
                 /\ lastBlock.back = LastWritten
                 /\ lastBlock.bid = 0
                 /\ lastBlock.blocks = 1
                 /\ result = Peek(LastWritten, 0)

C13_Witness ==
    /\ SupportedCall
    /\ pc = "returned"
    /\ bufLog = << <<"A", "B">>, <<"B", "A">> >>
    /\ result = Peek("A", 0)
    /\ result # Peek("B", 0)

\* a step in which a block of the oldest kernel of the stream runs
BlockStep ==
    /\ stream # <<>>
    /\ stream' # stream
    /\ launches' = launches
    /\ calls' = calls

\* C14: a block b of a pass with factor f reads the front buffer only at the
\* indices of [b*f, (b+1)*f) below the size of the pass and changes memory
\* only at back[b], front and back being different buffers; so the blocks of
\* a pass touch disjoint locations and nothing is read and written in the
\* same pass.
C14_BlocksDisjoint ==
    [][BlockStep =>
          LET k == Head(stream)
              b == lastBlock'.bid
              f == k.BlockSize * k.ItemsPerThread
          IN  /\ k.front # k.back
              /\ lastBlock'.front = k.front
              /\ lastBlock'.back = k.back
              /\ b \in k.pending
              /\ b < k.blocks
              /\ lastBlock'.reads =
                     {i \in b * f .. (b + 1) * f - 1 : i < k.front_size}
              /\ \A buf \in DOMAIN mem : \A i \in DOMAIN mem[buf] :
                     mem'[buf][i] # mem[buf][i] => (buf = k.back /\ i = b)
              /\ \A c \in (0 .. k.blocks - 1) \ {b} :
                     BlockReads(c, k.BlockSize, k.ItemsPerThread, k.front_size)
                         \cap lastBlock'.reads = {}
    ]_vars

C14_Witness ==
    /\ SupportedCall
    /\ lastBlock.executed
    /\ lastBlock.blocks = 2
    /\ lastBlock.bid = 1
    /\ InRange
    /\ lastBlock.reads = {SmallestBlock}
    /\ \E bid \in 0 .. LargestSize : ENABLED ExecBlock(bid)

\* the iterations of the outer static_for entered with value I
RECURSIVE RoundCount(_)
RoundCount(I) == IF I = 0 THEN 0 ELSE 1 + RoundCount(NextActiveWarps(I, warp_size))

Conflict(a, b) ==
    /\ a.slot = b.slot
    /\ a.warp # b.warp
    /\ "write" \in {a.kind, b.kind}

\* C15: in a block of any block size and warp width of the menus, under
\* every interleaving of its warps, no two warps touch a shared slot, one of
\* them writing, without a barrier between the two accesses; a warp reads
\* shared only when every write of its round has been made; every warp
\* makes the same number of __syncthreads() calls and none waits at a
\* barrier another warp will not reach.
C15_SharedRaceFree ==
    /\ \A a, b \in accesses : Conflict(a, b) => a.epoch # b.epoch
    /\ \A w \in Warps :
          /\ wpc[w] = "read" =>
                \A v \in 0 .. active[w] - 1 :
                    [slot |-> v, warp |-> v, epoch |-> arrived[w] - 1,
                     kind |-> "write"] \in accesses
          /\ wpc[w] \in {"store", "done"} => arrived[w] = RoundCount(WarpCount)
          /\ arrived[w] <= RoundCount(WarpCount)
          /\ \A v \in Warps : arrived[v] - arrived[w] <= 1
    /\ out.written =>
          out.value = Rounds([res |-> [t \in 0 .. blockDim - 1 |-> Partial(t)],
                              shared |-> [i \in 0 .. WarpCount - 1 |-> junk]],
                             WarpCount, warp_size, blockDim).res[0]

C15_Witness ==
    /\ blockDim = 4 * warp_size
    /\ wpc[0] = "sync"
    /\ arrived[0] = 1
    /\ \E w \in Warps : wpc[w] = "read" /\ arrived[w] = 1
    /\ \E a \in accesses : a.kind = "write" /\ a.epoch = 1
    /\ \E a \in accesses : a.kind = "read" /\ a.epoch = 1 /\ a.slot = 0

RECURSIVE Combined(_)
\* the partials of threads 0 .. n - 1 combined under the operator
Combined(n) == IF n = 1 THEN Partial(0) ELSE kernel_op(Combined(n - 1), Partial(n - 1))

\* C16: for every block size and warp width of the menus, block sizes below
\* the warp width included, the value thread 0 stores to back[bid] is the
\* combination of the partial results of all block_size threads.
C16_AllThreadsCombined ==
    out.written => out.value = Combined(blockDim)

\* C17: for every input size the host accepts, the uint32_t front_size the
\* kernel receives equals the host's std::size_t size of the pass, and the
\* int32_t gid of every thread equals the mathematical value of bid *
\* (block_size * items_per_thread) + tid * items_per_thread.
C17_NoTruncation ==
    /\ wstage \in {"launched", "indexed"} => front_size32 = step_size
    /\ wstage = "indexed" =>
          gid32 = GidValue(thread[1], thread[2], launch_conf[1], launch_conf[2])

====
